---- MODULE Spec2Model ----
(***************************************************************************)
(* A model of count_plugins.py: the plugin counter, the history store and  *)
(* delta calculator, the change classifier and the orchestration in main.  *)
(*                                                                         *)
(* Calendar dates ("%Y-%m-%d" strings, compared as strings by sorted())    *)
(* are modelled by day numbers: ISO date strings of four-digit years sort  *)
(* lexically in calendar order, so day d1 < d2 iff its string sorts first. *)
(***************************************************************************)
EXTENDS Integers, Sequences, FiniteSets, TLC

VARIABLES
    pc,               \* which call is pending / finished
    history,          \* the history dict {"community": {...}, "official": {...}}
    arg_history,      \* the history as it was passed to calculate_new_plugins
    today,            \* datetime.now().strftime("%Y-%m-%d") of the last call
    community_count,  \* argument community_count
    official_count,   \* argument official_count
    ret,              \* (community_new, official_new, total_new) returned
    inserted,         \* every date a call has written into the history so far
    repo_path,        \* the repository get_repo_changes is called on
    commits,          \* the commits git log reports, newest first
    log,              \* result.stdout.strip().split('\n'): the lines of git log
    added_plugins,    \* the three lists get_repo_changes returns
    removed_plugins,
    modified_plugins,
    env,              \* what the collaborators of main do in this run
    notified,         \* send_to_feishu has been called
    saved,            \* save_history has been called
    raised,           \* an exception has been raised inside the try block of main
    exit_status,      \* the exit status of the process
    tree,             \* the directory tree at repo_path that the counter walks
    total_plugins     \* what count_plugins_community returns

calcVars == <<history, arg_history, today, community_count, official_count, ret, inserted>>

changeVars == <<repo_path, commits, log, added_plugins, removed_plugins, modified_plugins>>

mainVars == <<env, notified, saved, raised, exit_status>>

countVars == <<tree, total_plugins>>

vars == <<pc, calcVars, changeVars, mainVars, countVars>>

(***************************************************************************)
(* Bounds of the model.                                                    *)
(***************************************************************************)
MaxDate == 3        \* dates 1..MaxDate in the delta specification
MaxCount == 1       \* plugin counts 0..MaxCount
MaxDay == 33        \* dates 1..MaxDay in the retention specification
MaxLog == 4         \* commits plus file lines of a git log
MaxItems == 3       \* subdirectories, and package files, of an author directory

Dates == 1..MaxDate
Counts == 0..MaxCount
NoRet == <<-1, -1, -1>>

(***************************************************************************)
(* Program constants.                                                      *)
(***************************************************************************)
RETENTION == 30     \* "Keep only last 30 days of history"

(***************************************************************************)
(* Helpers for Python's built-ins.                                         *)
(***************************************************************************)
SetMin(S) == CHOOSE x \in S : \A y \in S : x <= y
SetMax(S) == CHOOSE x \in S : \A y \in S : x >= y

\* sorted(S) for a set of dates: the ascending list of its elements
sorted(S) ==
    IF S = {} THEN <<>>
    ELSE LET lo == SetMin(S)
             hi == SetMax(S)
         IN  SelectSeq([i \in 1..(hi - lo + 1) |-> lo + i - 1], LAMBDA x : x \in S)

\* max(a, b)
max(a, b) == IF a >= b THEN a ELSE b

\* dict[key] = value
DictSet(d, k, v) == [x \in (DOMAIN d) \cup {k} |-> IF x = k THEN v ELSE d[x]]

\* del dict[key] for every key in ks
DictDel(d, ks) == [x \in (DOMAIN d) \ ks |-> d[x]]

EmptyDict == [x \in {} |-> 0]

None == -1          \* Python's None

(***************************************************************************)
(* calculate_new_plugins(history, community_count, official_count)         *)
(***************************************************************************)

\* [d for d in history[category].keys() if d != today], sorted
PrevDatesAll(h, t) == sorted(DOMAIN h)
PrevDates(h, t) == sorted({d \in DOMAIN h : d /= t})

\* prev_x = 0; if x_dates: prev_x = history[x][x_dates[-1]]
PrevCountFirst(h, t) ==
    LET dates == PrevDates(h, t)
    IN  IF Len(dates) > 0 THEN h[dates[1]] ELSE 0
PrevCount(h, t) ==
    LET dates == PrevDates(h, t)
    IN  IF Len(dates) > 0 THEN h[dates[Len(dates)]] ELSE 0

\* x_new = max(0, x_count - prev_x)
NewSinceSigned(count, prev) == count - prev
NewSince(count, prev) == max(0, count - prev)

\* dates = sorted(keys); if len(dates) > 30: delete every date of dates[:-30]
PruneOffByOne(h) ==
    LET dates == sorted(DOMAIN h)
    IN  IF Len(dates) > RETENTION + 1
        THEN DictDel(h, {dates[i] : i \in 1..(Len(dates) - RETENTION - 1)})
        ELSE h
Prune(h) ==
    LET dates == sorted(DOMAIN h)
    IN  IF Len(dates) > RETENTION
        THEN DictDel(h, {dates[i] : i \in 1..(Len(dates) - RETENTION)})
        ELSE h

\* The "first time run" branch: both categories get today's count, nothing else
FirstRunNoRecord(h, t, cc, oc) ==
    [history |-> [community |-> DictSet(h.community, t, cc),
                  official |-> h.official],
     ret |-> <<0, 0, 0>>]
FirstRun(h, t, cc, oc) ==
    [history |-> [community |-> DictSet(h.community, t, cc),
                  official |-> DictSet(h.official, t, oc)],
     ret |-> <<0, 0, 0>>]

\* The whole function: the new history and the returned triple
calculate_new_plugins(h, t, cc, oc) ==
    IF h.community = EmptyDict /\ h.official = EmptyDict
    THEN FirstRun(h, t, cc, oc)
    ELSE LET prev_community == PrevCount(h.community, t)
             prev_official == PrevCount(h.official, t)
             community_new == NewSince(cc, prev_community)
             official_new == NewSince(oc, prev_official)
             total_new == community_new + official_new
         IN  [history |-> [community |-> Prune(DictSet(h.community, t, cc)),
                           official |-> Prune(DictSet(h.official, t, oc))],
              ret |-> <<community_new, official_new, total_new>>]

\* The variables of the parts a specification does not exercise
CalcIdle ==
    /\ history = [community |-> EmptyDict, official |-> EmptyDict]
    /\ arg_history = history
    /\ today = 1
    /\ community_count = 0
    /\ official_count = 0
    /\ ret = NoRet
    /\ inserted = {}

ChangesIdle ==
    /\ repo_path = "dify-plugins"
    /\ commits = <<>>
    /\ log = <<>>
    /\ added_plugins = <<>>
    /\ removed_plugins = <<>>
    /\ modified_plugins = <<>>

MainIdle ==
    /\ env = <<>>
    /\ notified = FALSE
    /\ saved = FALSE
    /\ raised = FALSE
    /\ exit_status = 0

CountIdle ==
    /\ tree = <<>>
    /\ total_plugins = None

(***************************************************************************)
(* Specification SpecDelta: one call of calculate_new_plugins on any       *)
(* history the history file can hold (load_history returns the file's      *)
(* content as it is), any date and any pair of counts.                     *)
(***************************************************************************)
Dicts == UNION {[D -> Counts] : D \in SUBSET Dates}

InitDelta ==
    /\ pc = "calculate"
    /\ history \in [community : Dicts, official : Dicts]
    /\ arg_history = history
    /\ today \in Dates
    /\ community_count \in Counts
    /\ official_count \in Counts
    /\ ret = NoRet
    /\ inserted = {}
    /\ ChangesIdle
    /\ MainIdle
    /\ CountIdle

Calculate ==
    /\ pc = "calculate"
    /\ \E r \in {calculate_new_plugins(history, today, community_count, official_count)} :
           /\ history' = r.history
           /\ ret' = r.ret
    /\ inserted' = inserted \cup {today}
    /\ pc' = "calculated"
    /\ UNCHANGED <<arg_history, today, community_count, official_count, changeVars, mainVars, countVars>>

NextDelta == Calculate

SpecDelta == InitDelta /\ [][NextDelta]_vars

(***************************************************************************)
(* Specification SpecRetention: the daily runs, starting with no history   *)
(* file.  Each run is a call of calculate_new_plugins on the history the   *)
(* previous run left.  The wall clock gives the same day, the next day,    *)
(* or (after a clock adjustment) the day before; the repositories do not   *)
(* change between the runs.                                                *)
(***************************************************************************)
InitRetention ==
    /\ pc = "run"
    /\ history = [community |-> EmptyDict, official |-> EmptyDict]
    /\ arg_history = history
    /\ today \in Dates
    /\ community_count \in Counts
    /\ official_count \in Counts
    /\ ret = NoRet
    /\ inserted = {}
    /\ ChangesIdle
    /\ MainIdle
    /\ CountIdle

DailyRun ==
    /\ pc = "run"
    /\ \E t \in {today - 1, today, today + 1} \cap (1..MaxDay) :
         /\ today' = t
         /\ \E r \in {calculate_new_plugins(history, t, community_count, official_count)} :
                /\ history' = r.history
                /\ ret' = r.ret
         /\ inserted' = inserted \cup {t}
    /\ arg_history' = history
    /\ UNCHANGED <<pc, community_count, official_count, changeVars, mainVars, countVars>>

NextRetention == DailyRun

SpecRetention == InitRetention /\ [][NextRetention]_vars

(***************************************************************************)
(* Specification SpecTwice: two runs on the same calendar date with the    *)
(* same counts, the second on the history the first left.  The history     *)
(* file holds any short history, or a long one that the first call has to  *)
(* prune.                                                                  *)
(***************************************************************************)
ShortDicts == UNION {[D -> Counts] : D \in SUBSET (1..(MaxDate - 1))}

\* Histories of 30 and more consecutive days
LongDicts ==
    {[d \in lo..hi |-> (d + v) % (MaxCount + 1)] :
        lo \in 1..2, hi \in (MaxDay - 2)..MaxDay, v \in Counts}

LongDays == {1, MaxDay - 1, MaxDay, MaxDay + 1}

InitTwice ==
    /\ pc = "calculate"
    /\ \/ /\ history \in [community : ShortDicts, official : ShortDicts]
          /\ today \in Dates
       \/ /\ history \in [community : LongDicts, official : LongDicts \cup {EmptyDict}]
          /\ today \in LongDays
    /\ arg_history = history
    /\ community_count \in Counts
    /\ official_count \in Counts
    /\ ret = NoRet
    /\ inserted = {}
    /\ ChangesIdle
    /\ MainIdle
    /\ CountIdle

\* The second call, on the history the first call left
CalculateAgain ==
    /\ pc = "calculated"
    /\ \E r \in {calculate_new_plugins(history, today, community_count, official_count)} :
           /\ history' = r.history
           /\ ret' = r.ret
    /\ pc' = "recalculated"
    /\ UNCHANGED <<arg_history, today, community_count, official_count, inserted,
                   changeVars, mainVars, countVars>>

NextTwice == Calculate \/ CalculateAgain

SpecTwice == InitTwice /\ [][NextTwice]_vars

(***************************************************************************)
(* get_repo_changes(repo_path)                                             *)
(*                                                                         *)
(* A line of git's output is a record: a "commit <hash>" header, a line of *)
(* digits (the author timestamp, %at), a name-status line (the status and  *)
(* the tab-separated paths after it; a path is the list of its segments    *)
(* between '/'), or an empty line.                                         *)
(***************************************************************************)
since_time == 100   \* int((now - 24 hours).timestamp())

HeaderLine(id) == [kind |-> "commit", id |-> id, t |-> None, status |-> "", paths |-> <<>>]
TimeLine(t) == [kind |-> "time", id |-> None, t |-> t, status |-> "", paths |-> <<>>]
FileLine(f) == [kind |-> "file", id |-> None, t |-> None, status |-> f.status, paths |-> f.paths]
BlankLine == [kind |-> "blank", id |-> None, t |-> None, status |-> "", paths |-> <<>>]

\* git log --name-status --format='format:commit %H%n%at': for each commit the
\* header, the timestamp and its name-status lines; an empty line between commits
RECURSIVE GitLog(_)
GitLog(cs) ==
    IF cs = <<>> THEN <<>>
    ELSE <<HeaderLine(cs[1].id), TimeLine(cs[1].time)>>
         \o [i \in 1..Len(cs[1].files) |-> FileLine(cs[1].files[i])]
         \o (IF Len(cs) > 1 THEN <<BlankLine>> ELSE <<>>)
         \o GitLog(Tail(cs))

skip_dirs == {".git", ".github", ".assets", "logs"}
plugin_categories == {"agent-strategies", "extensions", "models", "tools", "migrations"}

NoPlugin == <<>>

\* Lines 412-435: the (author, plugin_name) of a path, NoPlugin for a skipped one
PluginOf(repo, path_parts) ==
    IF Len(path_parts) < 2 \/ path_parts[1] \in skip_dirs THEN NoPlugin
    ELSE IF repo = "dify-plugins" THEN
        IF path_parts[2] = "" THEN NoPlugin ELSE <<path_parts[1], path_parts[2]>>
    ELSE IF path_parts[1] \notin plugin_categories THEN NoPlugin
    ELSE IF path_parts[2] = "" THEN NoPlugin
    ELSE <<path_parts[1], path_parts[2]>>

\* if current_commit_time < since_time: the commit is too old
TooOld(t) == t < since_time

\* if plugin_info not in plugins: plugins.append(plugin_info)
AppendNew(plugins, plugin_info) ==
    IF \E i \in 1..Len(plugins) : plugins[i] = plugin_info
    THEN plugins
    ELSE Append(plugins, plugin_info)

\* One pass of the loop body over a line.  raised: an exception has left the loop.
ProcessLine(st, line, repo) ==
    IF st.raised \/ line.kind = "blank" THEN st
    ELSE IF line.kind = "commit" THEN [st EXCEPT !.current_commit = line.id]
    ELSE IF line.kind = "time" THEN
        IF TooOld(line.t)
        THEN [st EXCEPT !.current_commit = None, !.current_commit_time = None]
        ELSE [st EXCEPT !.current_commit_time = line.t]
    ELSE IF st.current_commit = None THEN st
    ELSE IF Len(line.paths) /= 1 THEN
        \* change_type, file_path = line.split('\t') raises ValueError
        [st EXCEPT !.raised = TRUE]
    ELSE LET plugin == PluginOf(repo, line.paths[1])
             plugin_info == [author |-> plugin[1], name |-> plugin[2],
                             commit |-> st.current_commit,
                             time |-> st.current_commit_time]
         IN  IF plugin = NoPlugin THEN st
             ELSE IF line.status = "A"
                 THEN [st EXCEPT !.added = AppendNew(st.added, plugin_info)]
             ELSE IF line.status = "D"
                 THEN [st EXCEPT !.removed = AppendNew(st.removed, plugin_info)]
             ELSE IF line.status = "M"
                 THEN [st EXCEPT !.modified = AppendNew(st.modified, plugin_info)]
             ELSE st

RECURSIVE Scan(_, _, _)
Scan(st, lines, repo) ==
    IF lines = <<>> THEN st ELSE Scan(ProcessLine(st, Head(lines), repo), Tail(lines), repo)

\* list.sort(key=lambda x: x["time"], reverse=True): a stable sort, so events
\* of equal time keep their order
RECURSIVE SortUnstable(_)
SortUnstable(plugins) ==
    IF plugins = <<>> THEN <<>>
    ELSE LET rest == SortUnstable(SubSeq(plugins, 1, Len(plugins) - 1))
             x == plugins[Len(plugins)]
             before == SelectSeq(rest, LAMBDA y : y.time > x.time)
             after == SelectSeq(rest, LAMBDA y : y.time <= x.time)
         IN  before \o <<x>> \o after
RECURSIVE SortByTimeDescending(_)
SortByTimeDescending(plugins) ==
    IF plugins = <<>> THEN <<>>
    ELSE LET rest == SortByTimeDescending(SubSeq(plugins, 1, Len(plugins) - 1))
             x == plugins[Len(plugins)]
             before == SelectSeq(rest, LAMBDA y : y.time >= x.time)
             after == SelectSeq(rest, LAMBDA y : y.time < x.time)
         IN  before \o <<x>> \o after

\* Comparing None with a timestamp or with None raises TypeError; a sort of
\* two or more events compares every one of them
SortRaises(plugins) ==
    Len(plugins) >= 2 /\ \E i \in 1..Len(plugins) : plugins[i].time = None

NoChanges == [added |-> <<>>, removed |-> <<>>, modified |-> <<>>]

\* The whole function on the lines of a successful git log
get_repo_changes(repo, changes) ==
    IF changes = <<>> THEN NoChanges
    ELSE LET st == Scan([current_commit |-> None, current_commit_time |-> None,
                         added |-> <<>>, removed |-> <<>>, modified |-> <<>>,
                         raised |-> FALSE], changes, repo)
         IN  IF st.raised \/ SortRaises(st.added) \/ SortRaises(st.removed)
                \/ SortRaises(st.modified)
             THEN NoChanges          \* except Exception: return [], [], []
             ELSE [added |-> SortByTimeDescending(st.added),
                   removed |-> SortByTimeDescending(st.removed),
                   modified |-> SortByTimeDescending(st.modified)]

(***************************************************************************)
(* Specification SpecChanges: the repository receives commits (at most     *)
(* MaxLog commits and file lines in all), then get_repo_changes is called  *)
(* on the log git prints for them, newest commit first.  Commit hashes are *)
(* distinct; author timestamps are in any order (git orders and filters by *)
(* committer date).                                                        *)
(***************************************************************************)
Repos == {"dify-plugins", "dify-official-plugins"}

Times == {since_time - 1, since_time, since_time + 1}

Paths == {<<"alice", "p1", "main.py">>, <<"tools", "foo", "main.py">>, <<"README.md">>}

FileChanges ==
    {[status |-> s, paths |-> <<p>>] : s \in {"A", "D", "M"}, p \in Paths}
    \cup {[status |-> "R", paths |-> <<<<"alice", "p1", "a.py">>, <<"alice", "p1", "b.py">>>>],
          [status |-> "T", paths |-> <<<<"alice", "p1", "main.py">>>>]}

FileSeqs(k) == UNION {[1..j -> FileChanges] : j \in 0..k}

\* The commits and file lines of a history
RECURSIVE LogSize(_)
LogSize(cs) == IF cs = <<>> THEN 0 ELSE 1 + Len(cs[1].files) + LogSize(Tail(cs))

InitChanges ==
    /\ pc = "classify"
    /\ repo_path \in Repos
    /\ commits = <<>>
    /\ log = <<>>
    /\ added_plugins = <<>>
    /\ removed_plugins = <<>>
    /\ modified_plugins = <<>>
    /\ CalcIdle
    /\ MainIdle
    /\ CountIdle

\* A commit lands in the repository before the run: git log lists it first
NewCommit ==
    /\ pc = "classify"
    /\ LogSize(commits) < MaxLog
    /\ \E t \in Times, fs \in FileSeqs(MaxLog - LogSize(commits) - 1) :
           commits' = <<[id |-> Len(commits) + 1, time |-> t, files |-> fs]>> \o commits
    /\ log' = GitLog(commits')
    /\ UNCHANGED <<pc, repo_path, added_plugins, removed_plugins, modified_plugins,
                   calcVars, mainVars, countVars>>

GetRepoChanges ==
    /\ pc = "classify"
    /\ \E r \in {get_repo_changes(repo_path, log)} :
           /\ added_plugins' = r.added
           /\ removed_plugins' = r.removed
           /\ modified_plugins' = r.modified
    /\ pc' = "classified"
    /\ UNCHANGED <<repo_path, commits, log, calcVars, mainVars, countVars>>

NextChanges == NewCommit \/ GetRepoChanges

SpecChanges == InitChanges /\ [][NextChanges]_vars

(***************************************************************************)
(* Specification SpecStdout: get_repo_changes on the text the git          *)
(* subprocess wrote, taken as it comes (line 370 splits result.stdout      *)
(* without looking at its shape): a commit block may lack its timestamp    *)
(* line.  Such a block is a commit whose time is None.  Every file line    *)
(* here is a status and one path.                                          *)
(***************************************************************************)
\* The lines of the blocks: as GitLog, without the timestamp line of a block
\* that has none
RECURSIVE StdoutLines(_)
StdoutLines(cs) ==
    IF cs = <<>> THEN <<>>
    ELSE <<HeaderLine(cs[1].id)>>
         \o (IF cs[1].time = None THEN <<>> ELSE <<TimeLine(cs[1].time)>>)
         \o [i \in 1..Len(cs[1].files) |-> FileLine(cs[1].files[i])]
         \o (IF Len(cs) > 1 THEN <<BlankLine>> ELSE <<>>)
         \o StdoutLines(Tail(cs))

OnePathChanges == {f \in FileChanges : Len(f.paths) = 1}

OnePathSeqs(k) == UNION {[1..j -> OnePathChanges] : j \in 0..k}

\* One more block at the head of the output, with or without a timestamp line
NewBlock ==
    /\ pc = "classify"
    /\ LogSize(commits) < MaxLog
    /\ \E t \in Times \cup {None}, fs \in OnePathSeqs(MaxLog - LogSize(commits) - 1) :
           commits' = <<[id |-> Len(commits) + 1, time |-> t, files |-> fs]>> \o commits
    /\ log' = StdoutLines(commits')
    /\ UNCHANGED <<pc, repo_path, added_plugins, removed_plugins, modified_plugins,
                   calcVars, mainVars, countVars>>

NextStdout == NewBlock \/ GetRepoChanges

SpecStdout == InitChanges /\ [][NextStdout]_vars

(***************************************************************************)
(* main() and the __main__ block                                           *)
(*                                                                         *)
(* env records what the run meets: whether ensure_repo_exists and          *)
(* update_repo succeed for each repository, whether the 15 minutes are     *)
(* over after the repositories have been ensured, what the counters        *)
(* return, what load_history returns, and the exception, if any, that is   *)
(* raised in one of the calls of the try block.                            *)
(***************************************************************************)
Steps == <<"ensure", "update", "count", "load", "calculate", "changes", "notify", "save">>

NoException == <<"none", "none">>

\* ensure_repo_exists creates directories outside its try (lines 86-89) and
\* calculate_new_plugins indexes the loaded history without one: these can
\* raise an Exception into main.  The other calls catch every Exception
\* themselves; KeyboardInterrupt and SystemExit pass through all of them.
Raisable ==
    {NoException, <<"ensure", "Exception">>, <<"calculate", "Exception">>}
    \cup {<<Steps[i], "KeyboardInterrupt">> : i \in 1..Len(Steps)}

\* The exception of the run is raised in this step
RaisesAt(e, step) == e.raises[1] = step

\* "if not update_repo(A) or not update_repo(B): abort"
UpdateFailed(e) ==
    ~e.update_ok["dify-plugins"] \/ ~e.update_ok["dify-official-plugins"]

\* The run ends with an exception raised in the try block; out holds what
\* main has done so far
Leave(out, exception) ==
    [out EXCEPT !.raised = TRUE,
                \* main's "except Exception" logs and main returns; any other
                \* exception passes the handler of __main__ too and ends the
                \* interpreter with a non-zero status
                !.exit_status = IF exception[2] = "KeyboardInterrupt" THEN 1 ELSE 0]

main(e, h, t) ==
    LET start == [community_count |-> None, official_count |-> None,
                  history |-> h, ret |-> NoRet,
                  notified |-> FALSE, saved |-> FALSE,
                  raised |-> FALSE, exit_status |-> 0]
        community_repo_ok == e.ensure_ok["dify-plugins"]
        official_repo_ok == e.ensure_ok["dify-official-plugins"]
        counted == [start EXCEPT
                      !.community_count = IF community_repo_ok THEN e.count["dify-plugins"] ELSE 0,
                      !.official_count = IF official_repo_ok THEN e.count["dify-official-plugins"] ELSE 0]
        r == calculate_new_plugins(h, t, counted.community_count, counted.official_count)
        calculated == [counted EXCEPT !.history = r.history, !.ret = r.ret]
        sent == [calculated EXCEPT !.notified = TRUE]
        stored == [sent EXCEPT !.saved = TRUE]
    IN  IF RaisesAt(e, "ensure") THEN Leave(start, e.raises)
        ELSE IF ~community_repo_ok /\ ~official_repo_ok THEN start
        ELSE IF e.timed_out THEN start
        ELSE IF RaisesAt(e, "update") THEN Leave(start, e.raises)
        ELSE IF UpdateFailed(e) THEN start
        ELSE IF RaisesAt(e, "count") THEN Leave(start, e.raises)
        ELSE IF RaisesAt(e, "load") THEN Leave(counted, e.raises)
        ELSE IF RaisesAt(e, "calculate") THEN Leave(counted, e.raises)
        ELSE IF RaisesAt(e, "changes") THEN Leave(calculated, e.raises)
        ELSE IF RaisesAt(e, "notify") THEN Leave(calculated, e.raises)
        ELSE IF RaisesAt(e, "save") THEN Leave(sent, e.raises)
        ELSE stored

(***************************************************************************)
(* Specification SpecMain: one run of the script.                          *)
(***************************************************************************)
Environments ==
    [ensure_ok : [Repos -> BOOLEAN],
     update_ok : [Repos -> BOOLEAN],
     timed_out : BOOLEAN,
     count : [Repos -> Counts],
     raises : Raisable]

\* What load_history can return here: no file, or yesterday's counts
LoadedHistories ==
    {[community |-> EmptyDict, official |-> EmptyDict]}
    \cup {[community |-> DictSet(EmptyDict, 1, c), official |-> DictSet(EmptyDict, 1, c)] :
            c \in Counts}

InitMain ==
    /\ pc = "main"
    /\ env \in Environments
    /\ history \in LoadedHistories
    /\ arg_history = history
    /\ today = 2
    /\ community_count = None
    /\ official_count = None
    /\ ret = NoRet
    /\ inserted = {}
    /\ notified = FALSE
    /\ saved = FALSE
    /\ raised = FALSE
    /\ exit_status = 0
    /\ ChangesIdle
    /\ CountIdle

Main ==
    /\ pc = "main"
    /\ \E out \in {main(env, history, today)} :
           /\ community_count' = out.community_count
           /\ official_count' = out.official_count
           /\ history' = out.history
           /\ ret' = out.ret
           /\ notified' = out.notified
           /\ saved' = out.saved
           /\ raised' = out.raised
           /\ exit_status' = out.exit_status
    /\ pc' = "exited"
    /\ UNCHANGED <<env, arg_history, today, inserted, changeVars, countVars>>

NextMain == Main

SpecMain == InitMain /\ [][NextMain]_vars

(***************************************************************************)
(* count_plugins_community(repo_path)                                      *)
(*                                                                         *)
(* tree.root says whether repo_path is missing, cannot be entered or       *)
(* listed, or is readable; tree.entries maps the names in repo_path to     *)
(* what they are.  An item of an author directory is a record: whether it  *)
(* is a directory and whether its name ends in ".difypkg".                 *)
(***************************************************************************)
\* d.startswith('.') for the names of the model
StartsWithDot(d) == d \in {".git", ".github", ".assets", ".hidden"}

\* The sum of f[x] over the elements x of S
RECURSIVE SumOver(_, _)
SumOver(S, f) ==
    IF S = {} THEN 0
    ELSE LET x == CHOOSE y \in S : TRUE IN f[x] + SumOver(S \ {x}, f)

\* Lines 212-235: what one author directory adds to total_plugins
AuthorPluginsBoth(dir) ==
    IF ~dir.listable THEN 0
    ELSE Cardinality({d \in dir.items : d.is_dir})
         + Cardinality({f \in dir.items : f.difypkg})
AuthorPlugins(dir) ==
    IF ~dir.listable THEN 0          \* os.listdir raises: logged, continue
    ELSE LET subdirs == {d \in dir.items : d.is_dir}
         IN  IF subdirs /= {} THEN Cardinality(subdirs)
             ELSE Cardinality({f \in dir.items : f.difypkg})

count_plugins_community(tr) ==
    IF tr.root = "missing" THEN 0            \* not os.path.exists(repo_path)
    ELSE IF tr.root = "unreadable" THEN 0    \* os.chdir or os.listdir raises
    ELSE LET author_dirs == {d \in DOMAIN tr.entries :
                               /\ tr.entries[d].is_dir
                               /\ d \notin skip_dirs
                               /\ ~StartsWithDot(d)}
             plugin_count == [d \in author_dirs |-> AuthorPlugins(tr.entries[d])]
         IN  SumOver(author_dirs, plugin_count)

(***************************************************************************)
(* Specification SpecCount: one call of count_plugins_community on a       *)
(* checkout with the infrastructure entries .git, .hidden, logs and        *)
(* README.md and up to two author directories.                             *)
(***************************************************************************)
SubdirItems == {[is_dir |-> TRUE, difypkg |-> FALSE, n |-> i] : i \in 1..MaxItems}
PackageItems == {[is_dir |-> FALSE, difypkg |-> TRUE, n |-> i] : i \in 1..MaxItems}
OtherItems == {[is_dir |-> FALSE, difypkg |-> FALSE, n |-> 1]}

Directory(listable, items) == [is_dir |-> TRUE, listable |-> listable, items |-> items]
PlainFile == [is_dir |-> FALSE, listable |-> FALSE, items |-> {}]

\* An author directory: readable with any items, or one that cannot be listed
AuthorDirectories ==
    {Directory(TRUE, D \cup P \cup O) :
        D \in SUBSET SubdirItems, P \in SUBSET PackageItems, O \in SUBSET OtherItems}
    \cup {Directory(FALSE, SubdirItems \cup PackageItems)}

Infrastructure ==
    [x \in {".git", ".hidden", "logs", "README.md"} |->
        IF x = "README.md" THEN PlainFile ELSE Directory(TRUE, SubdirItems \cup PackageItems)]

Authors == {"alice", "bob"}

\* os.listdir(repo_path): the infrastructure entries and the author directories
Checkout(author_dirs) ==
    [x \in DOMAIN author_dirs \cup DOMAIN Infrastructure |->
        IF x \in DOMAIN author_dirs THEN author_dirs[x] ELSE Infrastructure[x]]

InitCount ==
    /\ pc = "count"
    /\ \E A \in SUBSET Authors :
         \E author_dirs \in [A -> AuthorDirectories] :
             \E root \in {"missing", "unreadable", "ok"} :
                 tree = [root |-> root,
                         entries |-> IF root = "missing" THEN <<>> ELSE Checkout(author_dirs)]
    /\ total_plugins = None
    /\ CalcIdle
    /\ ChangesIdle
    /\ MainIdle

CountPluginsCommunity ==
    /\ pc = "count"
    /\ total_plugins' = count_plugins_community(tree)
    /\ pc' = "counted"
    /\ UNCHANGED <<tree, calcVars, changeVars, mainVars>>

NextCount == CountPluginsCommunity

SpecCount == InitCount /\ [][NextCount]_vars

(***************************************************************************)
(* Properties of calculate_new_plugins.                                    *)
(***************************************************************************)
NoHistory(h) == DOMAIN h.community = {} /\ DOMAIN h.official = {}

\* The count recorded under the latest date of D, 0 when D is empty
CountAtLatest(h, D) ==
    IF D = {} THEN 0 ELSE h[CHOOSE d \in D : \A e \in D : e <= d]

LatestBefore(h, t) == CountAtLatest(h, {d \in DOMAIN h : d < t})
LatestOther(h, t) == CountAtLatest(h, {d \in DOMAIN h : d /= t})

Positive(n) == IF n > 0 THEN n ELSE 0

\* C1, as stated: on a history that is not empty in both categories, each
\* category's delta is max(0, current - previous), previous being the count
\* under the most recent recorded date strictly before today (0 if none);
\* dates equal to or later than today are never used.
C1_PreviousStrictlyBeforeToday ==
    (pc = "calculated" /\ ~NoHistory(arg_history)) =>
        /\ ret[1] = Positive(community_count - LatestBefore(arg_history.community, today))
        /\ ret[2] = Positive(official_count - LatestBefore(arg_history.official, today))

\* C1, amended: on a history that is not empty in both categories, each
\* category's delta is max(0, current - previous), previous being the count
\* under the greatest recorded date other than today (0 if there is none):
\* a recorded date later than today is used when there is one.
C1_PreviousIsLatestOtherThanToday ==
    (pc = "calculated" /\ ~NoHistory(arg_history)) =>
        /\ ret[1] = Positive(community_count - LatestOther(arg_history.community, today))
        /\ ret[2] = Positive(official_count - LatestOther(arg_history.official, today))

\* C1 witness: a call whose history holds an earlier date, today and a later
\* date for the community, and nothing for the official category
C1_Witness ==
    /\ pc = "calculated"
    /\ \E d1, d2 \in DOMAIN arg_history.community : d1 < today /\ today < d2
    /\ today \in DOMAIN arg_history.community
    /\ DOMAIN arg_history.official = {}
    /\ ret[1] > 0
    /\ ret[2] > 0

\* C2: for every history and every pair of non-negative counts the two
\* deltas returned are >= 0, also when the current count is below the
\* recorded one, and the total is their sum.
C2_DeltasNonNegative ==
    pc = "calculated" =>
        /\ ret[1] >= 0
        /\ ret[2] >= 0
        /\ ret[3] = ret[1] + ret[2]

\* C2 witness: the community count fell below every recorded count, the
\* official count rose
C2_Witness ==
    /\ pc = "calculated"
    /\ DOMAIN arg_history.community /= {}
    /\ \A d \in DOMAIN arg_history.community : arg_history.community[d] > community_count
    /\ ret[1] = 0
    /\ ret[2] > 0

\* C3: called with a history that has no recorded date in either category,
\* the function returns (0, 0, 0) whatever the counts are, and afterwards
\* each category holds exactly one date, today, with that category's count.
C3_FirstRun ==
    (pc = "calculated" /\ NoHistory(arg_history)) =>
        /\ ret = <<0, 0, 0>>
        /\ DOMAIN history.community = {today}
        /\ DOMAIN history.official = {today}
        /\ history.community[today] = community_count
        /\ history.official[today] = official_count

\* C3 witness: a first run with two different counts, one of them positive
C3_Witness ==
    /\ pc = "calculated"
    /\ NoHistory(arg_history)
    /\ community_count > official_count
    /\ ret = <<0, 0, 0>>

\* The n most recent dates of D
MostRecent(D, n) == {d \in D : Cardinality({e \in D : e > d}) < n}

\* C4: after any sequence of runs from an empty history each category holds
\* at most 30 dates; once more than 30 distinct dates have been inserted,
\* exactly the 30 most recent of them remain.
C4_Retention ==
    \A c \in {"community", "official"} :
        /\ Cardinality(DOMAIN history[c]) <= RETENTION
        /\ DOMAIN history[c] \subseteq inserted
        /\ Cardinality(inserted) > RETENTION =>
               DOMAIN history[c] = MostRecent(inserted, RETENTION)

\* C4 witness: two dates have been pruned, and the clock has been set back
\* to a date that was inserted and pruned at once
C4_Witness ==
    /\ Cardinality(inserted) >= RETENTION + 2
    /\ Cardinality(DOMAIN history.community) = RETENTION
    /\ today \in inserted
    /\ today \notin DOMAIN history.community
    /\ today \notin DOMAIN arg_history.community

(***************************************************************************)
(* Properties of get_repo_changes.                                         *)
(***************************************************************************)
ChangeStatuses == {"A", "D", "M"}

\* The list get_repo_changes returned for a status
Returned(s) ==
    IF s = "A" THEN added_plugins
    ELSE IF s = "D" THEN removed_plugins
    ELSE modified_plugins

ReturnedEvents ==
    UNION {{Returned(s)[i] : i \in 1..Len(Returned(s))} : s \in ChangeStatuses}

\* A file line with status A, D or M and a path that names a plugin
Classifiable(f) ==
    /\ f.status \in ChangeStatuses
    /\ Len(f.paths) = 1
    /\ PluginOf(repo_path, f.paths[1]) /= NoPlugin

\* The event a classifiable file line f of commit c stands for
EventOf(c, f) ==
    [author |-> PluginOf(repo_path, f.paths[1])[1],
     name |-> PluginOf(repo_path, f.paths[1])[2],
     commit |-> c.id,
     time |-> c.time]

\* C5: with threshold T = now - 24 hours, a commit whose timestamp is below
\* T contributes no event, a commit whose timestamp is above T contributes
\* an event for each of its classifiable A, D or M file lines, and every
\* event returned carries a timestamp >= T.
C5_LookbackBoundary ==
    pc = "classified" =>
        /\ \A b \in 1..Len(commits) :
             LET c == commits[b]
             IN  /\ c.time < since_time => \A e \in ReturnedEvents : e.commit /= c.id
                 /\ c.time > since_time =>
                      \A k \in 1..Len(c.files) :
                          Classifiable(c.files[k]) =>
                              \E i \in 1..Len(Returned(c.files[k].status)) :
                                  Returned(c.files[k].status)[i] = EventOf(c, c.files[k])
        /\ \A e \in ReturnedEvents : e.time >= since_time

Occurrences(l, e) == Cardinality({i \in 1..Len(l) : l[i] = e})

\* C6: no returned list holds two events with the same (author, name,
\* commit, time); the file lines of one commit with the same plugin and the
\* same status yield exactly one event in that status's list, also when the
\* same plugin has lines of another status in the commit.
C6_Deduplicated ==
    pc = "classified" =>
        /\ \A s \in ChangeStatuses : \A e \in ReturnedEvents : Occurrences(Returned(s), e) <= 1
        /\ \A b \in 1..Len(commits) :
             LET c == commits[b]
             IN  c.time >= since_time =>
                     \A k \in 1..Len(c.files) :
                         Classifiable(c.files[k]) =>
                             Occurrences(Returned(c.files[k].status), EventOf(c, c.files[k])) = 1

\* The place in the log of the first file line that stands for event e in
\* the list of status s
FirstLine(e, s) ==
    SetMin(UNION {{b * (Len(log) + 1) + k :
                      k \in {x \in 1..Len(commits[b].files) :
                               /\ commits[b].files[x].status = s
                               /\ Classifiable(commits[b].files[x])
                               /\ EventOf(commits[b], commits[b].files[x]) = e}} :
                  b \in 1..Len(commits)})

\* The log of three commits that each add one plugin, at the given times
ThreeAdds(t1, t2, t3) ==
    GitLog(<<[id |-> 1, time |-> t1, files |-> <<[status |-> "A", paths |-> <<<<"alice", "p1", "f">>>>]>>],
             [id |-> 2, time |-> t2, files |-> <<[status |-> "A", paths |-> <<<<"alice", "p2", "f">>>>]>>],
             [id |-> 3, time |-> t3, files |-> <<[status |-> "A", paths |-> <<<<"alice", "p3", "f">>>>]>>]>>)

\* C7: each returned list is ordered by time descending, events of equal
\* time in the order of their first insertion while scanning the log; events
\* at times [100, 300, 200] are returned as [300, 200, 100].
C7_NewestFirstStable ==
    /\ pc = "classified" =>
         \A s \in ChangeStatuses :
             \A i, j \in 1..Len(Returned(s)) :
                 i < j =>
                     \/ Returned(s)[i].time > Returned(s)[j].time
                     \/ /\ Returned(s)[i].time = Returned(s)[j].time
                        /\ FirstLine(Returned(s)[i], s) < FirstLine(Returned(s)[j], s)
    /\ LET r == get_repo_changes("dify-plugins", ThreeAdds(100, 300, 200)).added
       IN  [i \in 1..Len(r) |-> r[i].time] = <<300, 200, 100>>

\* C7 witness: a returned list in which the event of a later line comes
\* first because it is newer
C7_Witness ==
    /\ pc = "classified"
    /\ \E s \in ChangeStatuses :
         \E i, j \in 1..Len(Returned(s)) :
             /\ i < j
             /\ Returned(s)[i].time > Returned(s)[j].time
             /\ FirstLine(Returned(s)[i], s) > FirstLine(Returned(s)[j], s)

(***************************************************************************)
(* Properties of main.                                                     *)
(***************************************************************************)
\* Synchronising a repository fails: ensure_repo_exists or update_repo
\* returns False for it
SyncFailed(repo) == ~env.ensure_ok[repo] \/ ~env.update_ok[repo]

\* The count main uses for a repository
CountUsed(repo) == IF repo = "dify-plugins" THEN community_count ELSE official_count

\* C8: when synchronisation (ensure_repo_exists or update_repo) fails for
\* exactly one of the two repositories, and nothing else goes wrong, the run
\* is not aborted: the failed category counts as 0, the other category is
\* counted, the delta is computed, the notification is attempted and the
\* history is saved.
C8_OneSyncFailureTolerated ==
    (/\ pc = "exited"
     /\ env.raises = NoException
     /\ ~env.timed_out
     /\ \E failed \in Repos :
            SyncFailed(failed) /\ \A other \in Repos \ {failed} : ~SyncFailed(other)) =>
        /\ \A repo \in Repos :
               CountUsed(repo) = IF SyncFailed(repo) THEN 0 ELSE env.count[repo]
        /\ ret /= NoRet
        /\ notified
        /\ saved

\* C9: when an exception is raised inside the orchestration steps of main
\* (counting, history load, delta computation, change collection,
\* notification, history save), the process ends with a non-zero exit status.
C9_ExceptionExitsNonZero ==
    (/\ pc = "exited"
     /\ raised
     /\ env.raises[1] \in {"count", "load", "calculate", "changes", "notify", "save"}) =>
        exit_status /= 0

(***************************************************************************)
(* Properties of count_plugins_community.                                  *)
(***************************************************************************)
\* The top-level directories that are author directories
AuthorDirs ==
    {d \in DOMAIN tree.entries :
        /\ tree.entries[d].is_dir
        /\ d \notin {".git", ".github", ".assets", "logs"}
        /\ ~StartsWithDot(d)}

\* What the claim gives an author directory: its subdirectories if it has
\* one, otherwise its package files; nothing if it cannot be listed
Contribution(d) ==
    LET dir == tree.entries[d]
        nsubdirs == Cardinality({i \in dir.items : i.is_dir})
        npackages == Cardinality({i \in dir.items : ~i.is_dir /\ i.difypkg})
    IN  IF ~dir.listable THEN 0
        ELSE IF nsubdirs >= 1 THEN nsubdirs
        ELSE npackages

\* C10, as stated: the result is the sum of the contributions of the author
\* directories, is >= 0, and is 0 when there is no author directory.
C10_SumOfAuthorDirectories ==
    pc = "counted" =>
        /\ total_plugins = SumOver(AuthorDirs, [d \in AuthorDirs |-> Contribution(d)])
        /\ total_plugins >= 0
        /\ AuthorDirs = {} => total_plugins = 0

\* C10, amended: when the repository directory can be entered and listed,
\* the result is the sum of the contributions of the author directories;
\* when it cannot, the result is 0.  The result is >= 0, and 0 when there is
\* no author directory.
C10_SumWhenRootReadable ==
    pc = "counted" =>
        /\ tree.root = "ok" => total_plugins = SumOver(AuthorDirs, [d \in AuthorDirs |-> Contribution(d)])
        /\ tree.root /= "ok" => total_plugins = 0
        /\ total_plugins >= 0
        /\ AuthorDirs = {} => total_plugins = 0

\* C10 witness: alice has two plugin directories beside a package file, bob
\* has three package files and no subdirectory: 2 + 3 = 5
C10_Witness ==
    /\ pc = "counted"
    /\ tree.root = "ok"
    /\ AuthorDirs = {"alice", "bob"}
    /\ tree.entries["alice"].listable
    /\ Cardinality({i \in tree.entries["alice"].items : i.is_dir}) = 2
    /\ Cardinality({i \in tree.entries["alice"].items : i.difypkg}) = 1
    /\ tree.entries["bob"].listable
    /\ Cardinality({i \in tree.entries["bob"].items : i.is_dir}) = 0
    /\ Cardinality({i \in tree.entries["bob"].items : i.difypkg}) = 3
    /\ total_plugins = 5

(***************************************************************************)
(* Properties of get_repo_changes on output with blocks that lack their    *)
(* timestamp line.                                                         *)
(***************************************************************************)
\* The block with commit id c
BlockOf(c) == commits[CHOOSE b \in 1..Len(commits) : commits[b].id = c]

\* C11: a commit block with a header and no timestamp line yields no event
\* for its file lines; no returned event carries the timestamp of another
\* commit or no timestamp; and the events of the well-formed commits of the
\* same output are still returned.
C11_HeaderClearsTime ==
    pc = "classified" =>
        /\ \A e \in ReturnedEvents :
             /\ e.time /= None
             /\ BlockOf(e.commit).time = e.time
        /\ \A b \in 1..Len(commits) :
             LET c == commits[b]
             IN  (c.time /= None /\ c.time >= since_time) =>
                     \A k \in 1..Len(c.files) :
                         Classifiable(c.files[k]) =>
                             \E i \in 1..Len(Returned(c.files[k].status)) :
                                 Returned(c.files[k].status)[i] = EventOf(c, c.files[k])

(***************************************************************************)
(* Properties of get_repo_changes on file lines of another status.         *)
(***************************************************************************)
\* Commit c is in the window and has a file line whose status is not A, D or M
HasOtherStatus(c) ==
    /\ c.time >= since_time
    /\ \E k \in 1..Len(c.files) : c.files[k].status \notin ChangeStatuses

\* Event e of the list of status s stands for an A, D or M line of an
\* in-window commit
FromChangeLine(e, s) ==
    \E b \in 1..Len(commits) :
        /\ commits[b].time >= since_time
        /\ \E k \in 1..Len(commits[b].files) :
               /\ commits[b].files[k].status = s
               /\ Classifiable(commits[b].files[k])
               /\ EventOf(commits[b], commits[b].files[k]) = e

\* C12: when an in-window commit has a file line whose status is not A, D
\* or M (a rename or copy line has a status and two paths), that line
\* produces no event, and the events of the other lines of the log are
\* still returned in their lists.
C12_OtherStatusIgnored ==
    (pc = "classified" /\ \E b \in 1..Len(commits) : HasOtherStatus(commits[b])) =>
        /\ \A s \in ChangeStatuses :
             \A i \in 1..Len(Returned(s)) : FromChangeLine(Returned(s)[i], s)
        /\ \A b \in 1..Len(commits) :
             commits[b].time >= since_time =>
                 \A k \in 1..Len(commits[b].files) :
                     Classifiable(commits[b].files[k]) =>
                         \E i \in 1..Len(Returned(commits[b].files[k].status)) :
                             Returned(commits[b].files[k].status)[i]
                                 = EventOf(commits[b], commits[b].files[k])

(***************************************************************************)
(* Properties of two calls of calculate_new_plugins on the same date.      *)
(***************************************************************************)
SecondCall == pc = "calculated" /\ pc' = "recalculated"

\* C13 as claimed: from any history, the empty one included, the second of
\* two calls on the same date with the same counts returns the deltas the
\* first returned and leaves the history unchanged.
C13_SameDayIdempotent ==
    [][SecondCall => (ret' = ret /\ history' = history)]_vars

\* C13: the second of two calls on the same date with the same counts
\* leaves the history unchanged; from a history that is not empty in both
\* categories it returns the deltas the first call returned; from the empty
\* history the first call returns (0, 0, 0) and the second the current
\* counts and their sum.
C13_SecondCallRepeats ==
    [][SecondCall =>
          /\ history' = history
          /\ IF NoHistory(arg_history)
             THEN /\ ret = <<0, 0, 0>>
                  /\ ret' = <<community_count, official_count,
                              community_count + official_count>>
             ELSE ret' = ret]_vars

\* C13 witness: both calls made on a history of 30 or more dates without
\* today, so that the first call pruned, with a positive delta
C13_Witness ==
    /\ pc = "recalculated"
    /\ Cardinality(DOMAIN arg_history.community) >= RETENTION
    /\ today \notin DOMAIN arg_history.community
    /\ Cardinality(DOMAIN history.community) = RETENTION
    /\ ret[3] > 0

====
